---- MODULE Spec2Model ----
(***************************************************************************)
(* Configuration loading of aklog-server (src/config.rs, src/error.rs).    *)
(*                                                                         *)
(* Config::load(path) reads a TOML file, decodes it into a ConfigDeser     *)
(* (a list of LogItemDeser {file, regex, alias}), converts every item into *)
(* a LogItem (capture names of the regex after the first two slots, and    *)
(* one metric alias "alias.name" per capture name) and flattens all the    *)
(* aliases into Config.all_aliases.                                        *)
(*                                                                         *)
(* Strings are TLA+ strings; an Option<T> is a sequence of length 0 or 1.  *)
(* A regex literal is the sequence of its group-relevant tokens.           *)
(***************************************************************************)
EXTENDS Integers, Sequences, FiniteSets, TLC

VARIABLES path, file, pc, s, conf_deser, l_items, all_als, idx, result

vars == <<path, file, pc, s, conf_deser, l_items, all_als, idx, result>>

\* Largest number of [[item]] tables in a configuration file of the model.
MaxItems == 2

None == <<>>

Some(v) == <<v>>

SeqUpTo(S, n) == UNION {[1..k -> S] : k \in 0..n}

(***************************************************************************)
(* Regex literals: the tokens that matter for capture groups.              *)
(***************************************************************************)
Lit == [kind |-> "lit", name |-> None]

Grp == [kind |-> "cap", name |-> None]

Named(n) == [kind |-> "cap", name |-> Some(n)]

NonCap == [kind |-> "noncap", name |-> None]

Close == [kind |-> "close", name |-> None]

\* \d+ : no group at all
ReNoGroup == <<Lit>>

\* (?P<ts>\d+) : only the reserved group
ReOnlyTs == <<Named("ts"), Lit, Close>>

\* (\d+) (\w+) : two unnamed groups
ReUnnamed == <<Grp, Lit, Close, Lit, Grp, Lit, Close>>

\* (?P<a>...)(?P<ts>...)(?P<b>...)(?P<c>...)
ReFourNamed == <<Named("a"), Lit, Close, Named("ts"), Lit, Close,
                 Named("b"), Lit, Close, Named("c"), Lit, Close>>

\* (\d{4}-\d{2}-\d{2}) (?P<level>\w+) (?P<msg>.*)
ReApp == <<Grp, Lit, Close, Lit, Named("level"), Lit, Close, Lit,
           Named("msg"), Lit, Close>>

\* (?P<ts>\d+)(?:x(\d+))(?P<v>(?P<w>\d+)) : non-capturing, unnamed, nested
ReMixed == <<Named("ts"), Lit, Close, NonCap, Lit, Grp, Lit, Close, Close,
             Named("v"), Named("w"), Lit, Close, Close>>

\* (?P<ts>\d+ : unclosed group, does not compile
ReUnclosed == <<Named("ts"), Lit>>

\* (?P<v>\d+)(?P<v>\d+) : duplicate group name, does not compile
ReDupName == <<Named("v"), Lit, Close, Named("v"), Lit, Close>>

RegexLiterals == {ReNoGroup, ReOnlyTs, ReUnnamed, ReFourNamed, ReApp,
                  ReMixed, ReUnclosed, ReDupName}

RECURSIVE Depth(_, _)
\* Nesting depth after the first k tokens; -1 once a ")" closes nothing.
Depth(lit, k) ==
    IF k = 0 THEN 0
    ELSE LET d == Depth(lit, k - 1)
         IN  IF d < 0 THEN -1
             ELSE IF lit[k].kind \in {"cap", "noncap"} THEN d + 1
             ELSE IF lit[k].kind = "close" THEN d - 1
             ELSE d

RECURSIVE GroupNames(_, _)
\* Names (Option) of the capturing groups among the first k tokens, in the
\* order of their opening parenthesis.
GroupNames(lit, k) ==
    IF k = 0 THEN <<>>
    ELSE IF lit[k].kind = "cap"
         THEN Append(GroupNames(lit, k - 1), lit[k].name)
         ELSE GroupNames(lit, k - 1)

Compiles(lit) ==
    /\ Depth(lit, Len(lit)) = 0
    /\ LET g == GroupNames(lit, Len(lit))
       IN  \A a, b \in 1..Len(g) :
               (a # b /\ g[a] # None) => g[a] # g[b]

\* Regex::new: the compiled pattern keeps its source and its group table.
\* Slot 0 of the table is the whole match, which never has a name.
RegexNew(lit) == [src |-> lit, groups |-> <<None>> \o GroupNames(lit, Len(lit))]

\* Regex::capture_names(): one Option<&str> per group, group 0 included.
capture_names(regex) == regex.groups

(***************************************************************************)
(* The file system and the TOML text.                                      *)
(***************************************************************************)
Paths == {"aklog.toml", "/etc/aklog.toml"}

Files == {"/var/log/app.log", "/var/log/disk.log"}

Aliases == {"app", "disk"}

\* One [[item]] table: every key is either present or missing.
Table(f, r, a) == [file |-> f, regex |-> r, alias |-> a]

FullTables == {Table(Some(f), Some(r), Some(a)) :
                   f \in Files, r \in RegexLiterals, a \in Aliases}

PartialTables == {Table(None, Some(ReApp), Some("app")),
                  Table(Some("/var/log/app.log"), None, Some("app")),
                  Table(Some("/var/log/app.log"), Some(ReApp), None)}

Tables == FullTables \cup PartialTables

\* The text of a file: syntactically well formed or not, and when it is,
\* the top-level key "item" is missing or an array of tables.
Malformed == [syntax_ok |-> FALSE, item |-> None]

NoItemKey == [syntax_ok |-> TRUE, item |-> None]

Texts == {Malformed, NoItemKey}
            \cup {[syntax_ok |-> TRUE, item |-> Some(t)] :
                      t \in SeqUpTo(Tables, MaxItems)}

\* A path names no file, a file that cannot be read (permissions, I/O fault,
\* bytes that are not UTF-8), or a text.
Missing == [state |-> "missing", text |-> None]

Unreadable == [state |-> "unreadable", text |-> None]

FileStates == {Missing, Unreadable}
                 \cup {[state |-> "text", text |-> Some(t)] : t \in Texts}

(***************************************************************************)
(* Results.                                                                *)
(***************************************************************************)
NoResult == [kind |-> "none", info |-> "", config |-> None]

\* chain_err(|| "..."): an ErrorKind::Msg wrapping the io::Error
MsgError(m) == [kind |-> "Msg", info |-> m, config |-> None]

\* an error that names the default configuration file, not the one loaded
ConfigParseErrorDefaultName(filename) ==
    [kind |-> "ConfigParseError", info |-> "aklog.toml", config |-> None]

ConfigParseError(filename) ==
    [kind |-> "ConfigParseError", info |-> filename, config |-> None]

OkConfig(c) == [kind |-> "Ok", info |-> "", config |-> Some(c)]

IsErr(r) == r.kind \in {"Msg", "ConfigParseError"}

(***************************************************************************)
(* ConfigDeser::load                                                       *)
(***************************************************************************)
\* a read that treats an unreadable file as an empty text
read_to_string_lenient(f) ==
    IF f.state = "text" THEN [ok |-> TRUE, val |-> f.text[1]]
    ELSE [ok |-> TRUE, val |-> NoItemKey]

\* std::fs::read_to_string
read_to_string(f) ==
    IF f.state = "text" THEN [ok |-> TRUE, val |-> f.text[1]]
    ELSE [ok |-> FALSE, val |-> Malformed]

TableDecodes(t) ==
    /\ t.file # None
    /\ t.alias # None
    /\ t.regex # None
    /\ Compiles(t.regex[1])

\* Deserialize for LogItemDeser (regex through serde_regex)
LogItemDeser(t) ==
    [file |-> t.file[1], regex |-> RegexNew(t.regex[1]), alias |-> t.alias[1]]

\* toml::from_str::<ConfigDeser>
from_str(text) ==
    IF /\ text.syntax_ok
       /\ text.item # None
       /\ \A k \in 1..Len(text.item[1]) : TableDecodes(text.item[1][k])
    THEN [ok |-> TRUE,
          val |-> [item |-> [k \in 1..Len(text.item[1]) |->
                                 LogItemDeser(text.item[1][k])]]]
    ELSE [ok |-> FALSE, val |-> [item |-> <<>>]]

get_items(cd) == cd.item

(***************************************************************************)
(* LogItem::try_from                                                       *)
(***************************************************************************)
\* Iterator::skip(n)
Skip(seq, n) == IF Len(seq) <= n THEN <<>> ELSE SubSeq(seq, n + 1, Len(seq))

RECURSIVE FilterMapStopAtNone(_)
\* map_while instead of filter_map: stops at the first unnamed group
FilterMapStopAtNone(seq) ==
    IF seq = <<>> THEN <<>>
    ELSE IF Head(seq) = None THEN <<>>
    ELSE <<Head(seq)[1]>> \o FilterMapStopAtNone(Tail(seq))

RECURSIVE FilterMap(_)
\* Iterator::filter_map(|n| n): keeps the Some values, unwrapped
FilterMap(seq) ==
    IF seq = <<>> THEN <<>>
    ELSE IF Head(seq) = None THEN FilterMap(Tail(seq))
    ELSE <<Head(seq)[1]>> \o FilterMap(Tail(seq))

\* skip(1): only the whole match is skipped
CaptureNamesSkip1(regex) == FilterMap(Skip(capture_names(regex), 1))

\* skip(3): the whole match and the first two declared groups are skipped
CaptureNamesSkip3(regex) == FilterMap(Skip(capture_names(regex), 3))

\* cnames: regex.capture_names().skip(2).filter_map(|n| n).collect()
CaptureNames(regex) == FilterMap(Skip(capture_names(regex), 2))

\* name and alias in the wrong order
MetricAliasSwapped(alias, name) == (name \o ".") \o alias

\* temp = alias; temp.push('.'); temp.push_str(name)
MetricAlias(alias, name) == (alias \o ".") \o name

RECURSIVE BuildAliasesDropLast(_, _, _)
\* a loop that stops one name early
BuildAliasesDropLast(alias, cnames, k) ==
    IF k <= 1 THEN <<>>
    ELSE Append(BuildAliasesDropLast(alias, cnames, k - 1),
                MetricAlias(alias, cnames[k - 1]))

RECURSIVE BuildAliases(_, _, _)
\* the for loop over cnames, after k iterations
BuildAliases(alias, cnames, k) ==
    IF k = 0 THEN <<>>
    ELSE Append(BuildAliases(alias, cnames, k - 1),
                MetricAlias(alias, cnames[k]))

\* a conversion that rejects a pattern without usable capture names
LogItem_try_from_reject_empty(lid) ==
    LET cnames == CaptureNames(lid.regex)
        als == BuildAliases(lid.alias, cnames, Len(cnames))
    IN  [ok |-> cnames # <<>>,
         val |-> [file |-> lid.file,
                  regex |-> lid.regex,
                  alias |-> lid.alias,
                  capture_names |-> cnames,
                  aliases |-> als],
         err |-> MsgError("pattern has no named capture group")]

\* a conversion that stores the alias where the file belongs and vice versa
LogItem_try_from_swapped(lid) ==
    LET cnames == CaptureNames(lid.regex)
        als == BuildAliases(lid.alias, cnames, Len(cnames))
    IN  [ok |-> TRUE,
         val |-> [file |-> lid.alias,
                  regex |-> lid.regex,
                  alias |-> lid.file,
                  capture_names |-> cnames,
                  aliases |-> als],
         err |-> NoResult]

LogItem_try_from(lid) ==
    LET cnames == CaptureNames(lid.regex)
        als == BuildAliases(lid.alias, cnames, Len(cnames))
    IN  [ok |-> TRUE,
         val |-> [file |-> lid.file,
                  regex |-> lid.regex,
                  alias |-> lid.alias,
                  capture_names |-> cnames,
                  aliases |-> als],
         err |-> NoResult]

(***************************************************************************)
(* Config::load                                                            *)
(***************************************************************************)
RECURSIVE PushAllDedup(_, _, _)
\* an inner loop that pushes an alias only when it is not yet in the list
PushAllDedup(acc, als, k) ==
    IF k = 0 THEN acc
    ELSE LET prev == PushAllDedup(acc, als, k - 1)
         IN  IF \E j \in 1..Len(prev) : prev[j] = als[k] THEN prev
             ELSE Append(prev, als[k])

RECURSIVE PushAll(_, _, _)
\* the inner for loop: all_als after pushing the first k aliases of an item
PushAll(acc, als, k) ==
    IF k = 0 THEN acc
    ELSE Append(PushAll(acc, als, k - 1), als[k])

Init ==
    /\ path \in Paths
    /\ file \in FileStates
    /\ pc = "read"
    /\ s = None
    /\ conf_deser = None
    /\ l_items = <<>>
    /\ all_als = <<>>
    /\ idx = 0
    /\ result = NoResult

\* read_to_string succeeds
ReadOk ==
    /\ pc = "read"
    /\ read_to_string(file).ok
    /\ s' = Some(read_to_string(file).val)
    /\ pc' = "parse"
    /\ UNCHANGED <<path, file, conf_deser, l_items, all_als, idx, result>>

\* read_to_string fails: chain_err and `?` return from both load functions
ReadErr ==
    /\ pc = "read"
    /\ ~read_to_string(file).ok
    /\ result' = MsgError("configuration file could not be read")
    /\ pc' = "done"
    /\ UNCHANGED <<path, file, s, conf_deser, l_items, all_als, idx>>

\* toml::from_str succeeds; Config::load enters its first loop
ParseOk ==
    /\ pc = "parse"
    /\ from_str(s[1]).ok
    /\ conf_deser' = Some(from_str(s[1]).val)
    /\ idx' = 1
    /\ pc' = "transform"
    /\ UNCHANGED <<path, file, s, l_items, all_als, result>>

\* toml::from_str fails: map_err to ConfigParseError(path), `?` returns it
ParseErr ==
    /\ pc = "parse"
    /\ ~from_str(s[1]).ok
    /\ result' = ConfigParseError(path)
    /\ pc' = "done"
    /\ UNCHANGED <<path, file, s, conf_deser, l_items, all_als, idx>>

\* one iteration of `for lid in conf_deser.get_items()`
TransformItem ==
    /\ pc = "transform"
    /\ idx <= Len(get_items(conf_deser[1]))
    /\ LET r == LogItem_try_from(get_items(conf_deser[1])[idx])
       IN  IF r.ok
           THEN /\ l_items' = Append(l_items, r.val)
                /\ idx' = idx + 1
                /\ UNCHANGED <<pc, result>>
           ELSE /\ result' = r.err
                /\ pc' = "done"
                /\ UNCHANGED <<l_items, idx>>
    /\ UNCHANGED <<path, file, s, conf_deser, all_als>>

\* the first loop is exhausted; all_als = Vec::new()
TransformDone ==
    /\ pc = "transform"
    /\ idx > Len(get_items(conf_deser[1]))
    /\ all_als' = <<>>
    /\ idx' = 1
    /\ pc' = "aggregate"
    /\ UNCHANGED <<path, file, s, conf_deser, l_items, result>>

\* one iteration of `for li in &l_items`, with its inner loop
AggregateItem ==
    /\ pc = "aggregate"
    /\ idx <= Len(l_items)
    /\ all_als' = PushAll(all_als, l_items[idx].aliases,
                          Len(l_items[idx].aliases))
    /\ idx' = idx + 1
    /\ UNCHANGED <<path, file, pc, s, conf_deser, l_items, result>>

\* Ok(Config { items: l_items, all_aliases: all_als })
Return ==
    /\ pc = "aggregate"
    /\ idx > Len(l_items)
    /\ result' = OkConfig([items |-> l_items, all_aliases |-> all_als])
    /\ pc' = "done"
    /\ UNCHANGED <<path, file, s, conf_deser, l_items, all_als, idx>>

Next ==
    \/ ReadOk
    \/ ReadErr
    \/ ParseOk
    \/ ParseErr
    \/ TransformItem
    \/ TransformDone
    \/ AggregateItem
    \/ Return

Spec == Init /\ [][Next]_vars

TypeOK ==
    /\ path \in Paths
    /\ pc \in {"read", "parse", "transform", "aggregate", "done"}
    /\ result.kind \in {"none", "Msg", "ConfigParseError", "Ok"}
    /\ (result.kind # "none") <=> (pc = "done")

(***************************************************************************)
(* Properties.                                                             *)
(***************************************************************************)
\* Config::load has returned Ok(Config)
Returned == pc = "done" /\ result.kind = "Ok"

Cfg == result.config[1]

\* the tables of the file at path, when the text has an "item" array
FileTables == file.text[1].item[1]

RECURSIVE Flatten(_)
\* concatenation of the alias lists of a sequence of entries
Flatten(items) ==
    IF items = <<>> THEN <<>>
    ELSE Head(items).aliases \o Flatten(Tail(items))

Count(seq, x) == Cardinality({j \in 1..Len(seq) : seq[j] = x})

RECURSIVE CountInEntries(_, _)
CountInEntries(items, x) ==
    IF items = <<>> THEN 0
    ELSE Count(Head(items).aliases, x) + CountInEntries(Tail(items), x)

RECURSIVE NamesFrom(_, _)
\* names of the named groups of a group table from position i on
\* (position i of the table is group i - 1)
NamesFrom(groups, i) ==
    IF i > Len(groups) THEN <<>>
    ELSE (IF groups[i] # None THEN <<groups[i][1]>> ELSE <<>>)
             \o NamesFrom(groups, i + 1)

\* C1: in a returned Config every entry's aliases has the length of its
\* capture_names and aliases[i] is alias, ".", capture_names[i].
C1_AliasesParallel ==
    Returned =>
        \A e \in 1..Len(Cfg.items) :
            LET it == Cfg.items[e]
            IN  /\ Len(it.aliases) = Len(it.capture_names)
                /\ \A i \in 1..Len(it.capture_names) :
                       it.aliases[i] = (it.alias \o ".") \o it.capture_names[i]

C1_Witness ==
    /\ Returned
    /\ \E e \in 1..Len(Cfg.items) :
           /\ Cfg.items[e].capture_names = <<"v", "w">>
           /\ Cfg.items[e].aliases = <<"disk.v", "disk.w">>

\* C2: all_aliases of a returned Config is the concatenation of the entries'
\* aliases in entry order and capture order, and every string occurs in it
\* as often as it occurs in the entries together (no deduplication).
C2_AllAliasesConcat ==
    Returned =>
        /\ Cfg.all_aliases = Flatten(Cfg.items)
        /\ \A e \in 1..Len(Cfg.items) :
               \A i \in 1..Len(Cfg.items[e].aliases) :
                   LET x == Cfg.items[e].aliases[i]
                   IN  Count(Cfg.all_aliases, x) = CountInEntries(Cfg.items, x)

C2_Witness ==
    /\ Returned
    /\ Len(Cfg.items) = 2
    /\ Cfg.items[1].file # Cfg.items[2].file
    /\ Cfg.all_aliases = <<"app.level", "app.msg", "app.level", "app.msg">>

\* C3: a returned Config has as many entries as the decoded ConfigDeser has
\* items, and entry k has the file, regex and alias of item k.
C3_EntriesMatchItems ==
    Returned =>
        /\ conf_deser # None
        /\ Len(Cfg.items) = Len(conf_deser[1].item)
        /\ \A k \in 1..Len(Cfg.items) :
               /\ Cfg.items[k].file = conf_deser[1].item[k].file
               /\ Cfg.items[k].regex = conf_deser[1].item[k].regex
               /\ Cfg.items[k].alias = conf_deser[1].item[k].alias
               /\ Cfg.items[k].file = FileTables[k].file[1]
               /\ Cfg.items[k].regex.src = FileTables[k].regex[1]
               /\ Cfg.items[k].alias = FileTables[k].alias[1]

C3_Witness ==
    /\ Returned
    /\ Len(Cfg.items) = 2
    /\ Cfg.items[1].file = "/var/log/disk.log"
    /\ Cfg.items[1].alias = "disk"
    /\ Cfg.items[1].regex.src = ReMixed
    /\ Cfg.items[2].file = "/var/log/app.log"
    /\ Cfg.items[2].alias = "app"
    /\ Cfg.items[2].regex.src = ReApp

\* C4: capture_names of every converted entry is the sequence of the names of
\* the named groups with index 2 or more, in declaration order; groups 0 and
\* 1 give no name, named or not.
C4_CaptureNamesFromIndexTwo ==
    \A e \in 1..Len(l_items) :
        l_items[e].capture_names = NamesFrom(l_items[e].regex.groups, 3)

C4_Witness ==
    \E e \in 1..Len(l_items) :
        /\ l_items[e].regex.groups =
               <<None, Some("ts"), None, Some("v"), Some("w")>>
        /\ l_items[e].capture_names = <<"v", "w">>

\* C5 as stated: the pattern with the named groups a, ts, b, c gives
\* capture_names = <<"b", "c">>, and with alias "disk" the aliases
\* <<"disk.b", "disk.c">>.
C5_Original ==
    \A e \in 1..Len(l_items) :
        (l_items[e].regex.src = ReFourNamed) =>
            /\ l_items[e].capture_names = <<"b", "c">>
            /\ (l_items[e].alias = "disk") =>
                   l_items[e].aliases = <<"disk.b", "disk.c">>

\* C5 (amended): the pattern with the named groups a, ts, b, c gives
\* capture_names = <<"ts", "b", "c">> (only group 0 and the first declared
\* group, a, are skipped), and with alias "disk" the aliases
\* <<"disk.ts", "disk.b", "disk.c">>.
C5_FourNamedGroups ==
    \A e \in 1..Len(l_items) :
        (l_items[e].regex.src = ReFourNamed) =>
            /\ l_items[e].capture_names = <<"ts", "b", "c">>
            /\ (l_items[e].alias = "disk") =>
                   l_items[e].aliases = <<"disk.ts", "disk.b", "disk.c">>

C5_Witness ==
    \E e \in 1..Len(l_items) :
        /\ l_items[e].regex.src = ReFourNamed
        /\ l_items[e].alias = "disk"
        /\ Len(l_items[e].aliases) = 3

\* C6: when the file at path is missing or cannot be read, nothing is
\* decoded, and the load ends with the read error, not ConfigParseError,
\* and without a Config.
C6_ReadErrorNotParseError ==
    (file.state # "text") =>
        /\ pc \in {"read", "done"}
        /\ s = None
        /\ conf_deser = None
        /\ pc = "done" =>
               /\ result = MsgError("configuration file could not be read")
               /\ result.kind # "ConfigParseError"
               /\ result.config = None

C6_Witness ==
    /\ pc = "done"
    /\ file = Missing
    /\ result.kind = "Msg"

\* the text does not decode: bad syntax, no "item" array, a table without
\* file, regex or alias, or a regex literal that does not compile
Undecodable(text) ==
    \/ ~text.syntax_ok
    \/ text.item = None
    \/ \E k \in 1..Len(text.item[1]) :
           LET t == text.item[1][k]
           IN  \/ t.file = None
               \/ t.regex = None
               \/ t.alias = None
               \/ t.regex[1] \in {ReUnclosed, ReDupName}

\* C7: when the file is readable and its text does not decode, the load ends
\* with ConfigParseError carrying the path given to load.
C7_ParseErrorCarriesPath ==
    (pc = "done" /\ file.state = "text" /\ Undecodable(file.text[1])) =>
        /\ result.kind = "ConfigParseError"
        /\ result.info = path
        /\ result.config = None

C7_Witness ==
    /\ pc = "done"
    /\ path = "/etc/aklog.toml"
    /\ file.state = "text"
    /\ file.text[1].item # None
    /\ Len(FileTables) = 2
    /\ FileTables[1].regex = Some(ReApp)
    /\ FileTables[2].regex = Some(ReUnclosed)
    /\ result.kind = "ConfigParseError"

\* fewer than two declared groups, or no named group at index 2 or more
FewGroups(regex) ==
    \/ Len(regex.groups) - 1 < 2
    \/ \A i \in 3..Len(regex.groups) : regex.groups[i] = None

RECURSIVE AliasCountOfOthers(_)
\* number of aliases of the entries that are not FewGroups entries
AliasCountOfOthers(items) ==
    IF items = <<>> THEN 0
    ELSE (IF FewGroups(Head(items).regex) THEN 0
          ELSE Len(Head(items).aliases))
             + AliasCountOfOthers(Tail(items))

\* C8: an entry whose pattern has fewer than two declared groups, or no named
\* group at index 2 or more, has empty capture_names and aliases; a file
\* that decodes and has such an item still loads, and the entry adds
\* nothing to all_aliases.
C8_FewGroupsGiveEmpty ==
    /\ \A e \in 1..Len(l_items) :
           FewGroups(l_items[e].regex) =>
               /\ l_items[e].capture_names = <<>>
               /\ l_items[e].aliases = <<>>
    /\ (/\ pc = "done"
        /\ conf_deser # None
        /\ \E k \in 1..Len(conf_deser[1].item) :
               FewGroups(conf_deser[1].item[k].regex)) =>
           /\ result.kind = "Ok"
           /\ Len(Cfg.items) = Len(conf_deser[1].item)
           /\ Len(Cfg.all_aliases) = AliasCountOfOthers(Cfg.items)

C8_Witness ==
    /\ Returned
    /\ Len(Cfg.items) = 2
    /\ Cfg.items[1].regex.src = ReOnlyTs
    /\ Cfg.items[1].aliases = <<>>
    /\ Cfg.items[2].regex.src = ReApp
    /\ Cfg.all_aliases = <<"disk.level", "disk.msg">>

\* the file of the end-to-end example
ExampleFile ==
    [state |-> "text",
     text |-> Some([syntax_ok |-> TRUE,
                    item |-> Some(<<Table(Some("/var/log/app.log"),
                                          Some(ReApp), Some("app"))>>)])]

\* C9: the file with the single item /var/log/app.log,
\* (\d{4}-\d{2}-\d{2}) (?P<level>\w+) (?P<msg>.*), app loads to one entry
\* with capture_names <<"level", "msg">>, aliases <<"app.level", "app.msg">>
\* and all_aliases <<"app.level", "app.msg">>.
C9_EndToEnd ==
    (pc = "done" /\ file = ExampleFile) =>
        /\ result.kind = "Ok"
        /\ Len(Cfg.items) = 1
        /\ Cfg.items[1].capture_names = <<"level", "msg">>
        /\ Cfg.items[1].aliases = <<"app.level", "app.msg">>
        /\ Cfg.all_aliases = <<"app.level", "app.msg">>

C9_Witness ==
    /\ pc = "done"
    /\ file = ExampleFile
    /\ result.kind = "Ok"

\* C10: the conversion of every decoded item is Ok; the load ends with an
\* error exactly when the read or the decoding failed, then without a Config;
\* otherwise the Config has one entry per table of the file.
C10_NoPartialLoad ==
    /\ (conf_deser # None) =>
           \A k \in 1..Len(conf_deser[1].item) :
               LogItem_try_from(conf_deser[1].item[k]).ok
    /\ (pc = "done") =>
           /\ IsErr(result) <=> (conf_deser = None)
           /\ IsErr(result) <=> (result.kind # "Ok")
           /\ IsErr(result) => (result.config = None)
           /\ (result.kind = "Ok") =>
                  /\ file.state = "text"
                  /\ file.text[1].item # None
                  /\ Len(Cfg.items) = Len(FileTables)

C10_Witness ==
    /\ Returned
    /\ Len(Cfg.items) = 2
    /\ Cfg.items[1].capture_names = <<>>
    /\ Cfg.items[2].capture_names = <<"ts", "b", "c">>
====
